---- MODULE Spec2Model ----
(***************************************************************************)
(* NeoForceScheme (neo_force_scheme/neo_force_scheme.py): the estimator    *)
(* that builds a condensed distance matrix (fit), runs the bounded         *)
(* convergence loop over the iteration engine (transform / _transform /    *)
(* _gpu_transform), scores a projection (score) and saves / loads the      *)
(* distance matrix.                                                        *)
(*                                                                         *)
(* Conventions.  An optional value is a sequence of length 0 or 1: <<>> is *)
(* Python's None for an argument, and "the attribute does not exist" for   *)
(* an attribute of the estimator (reading it raises AttributeError); <<v>> *)
(* holds v.  A matrix is a sequence of rows, row p+1 of the model being    *)
(* row p of the numpy array; columns likewise.  Point ids inside an        *)
(* Iteration Order stay 0-based as in the source.  Coordinates, distances  *)
(* and errors are small naturals standing for the floats of the program.   *)
(***************************************************************************)
EXTENDS Integers, Sequences, FiniteSets, TLC

\* ------------------------------------------------------------------ bounds
MaxN == 3          \* largest sample count given to fit
MaxVal == 1        \* feature values of a sample are 0..MaxVal
MaxCoord == 2      \* projection coordinates are 0..MaxCoord
MaxIt == 3         \* largest max_it the estimator is built with
MaxErr == 1        \* a sweep reports an error in 0..MaxErr
RngPeriod == 2     \* states of the numpy global generator

\* math.inf, the error before the first sweep (line 160)
Inf == -1

Coord == 0..MaxCoord

\* tolerances: none, one unit of error, more than any two errors differ by
Tolerances == {0, 1, MaxErr + 1}
NoneV == <<>>
Some(v) == <<v>>

VARIABLES
    max_it, tolerance, cuda,            \* configuration set by __init__
    embedding_, embedding_size_,        \* the distance matrix and its size
    projection_error_,                  \* error stored by transform
    origin,                             \* which operation wrote embedding_
    rng,                                \* state of np.random
    file,                               \* the pickle file save/load use
    saved,                              \* what the last successful save wrote
    callerXd,                           \* the array the caller passed as Xd
    pc,                                 \* position inside the current call
    Xd, alias,                          \* working projection; is it callerXd
    index, size, n_dimension, fixed_column,
    engine_dimension, engine_fixed, backend,
    k, error,                           \* locals of _transform
    nsweeps, last,                      \* calls to iteration: count, latest
    pre,                                \* state in which a failed transform was called
    out                                 \* outcome of the last operation

estimator == <<embedding_, embedding_size_, projection_error_, origin>>
config == <<max_it, tolerance, cuda>>
disk == <<file, saved>>
locals == <<Xd, alias, index, size, n_dimension, fixed_column,
            engine_dimension, engine_fixed, backend, k, error, nsweeps,
            last, pre>>
vars == <<config, estimator, rng, disk, callerXd, pc, locals, out>>

\* ------------------------------------------------------- arithmetic helpers
Abs(x) == IF x < 0 THEN -x ELSE x

\* int(math.sqrt(x)) for x >= 0
ISqrt(x) == CHOOSE r \in 0..x : r * r <= x /\ (r + 1) * (r + 1) > x

Min(S) == CHOOSE m \in S : \A x \in S : m <= x

Column(M, c) == {M[r][c] : r \in 1..Len(M)}

Width(M) == IF Len(M) = 0 THEN 0 ELSE Len(M[1])

\* -------------------------------------------- the condensed distance matrix
\* distances.euclidean on one-feature samples
Metric(a, b) == Abs(a - b)

\* the pair (i, j), i < j, 0-based, stored at 1-based offset o of n samples
PairAt(o, n) ==
    CHOOSE p \in (0..(n - 1)) \X (0..(n - 1)) :
        /\ p[1] < p[2]
        /\ n * p[1] - (p[1] * (p[1] + 1)) \div 2 + (p[2] - p[1] - 1) + 1 = o

\* engines.neo_force_scheme_cpu.create_triangular_distance_matrix: the
\* upper triangle, row by row, n(n-1)/2 entries (spec, section 3)
create_triangular_distance_matrix(X) ==
    [o \in 1..((Len(X) * (Len(X) - 1)) \div 2) |->
        Metric(X[PairAt(o, Len(X))[1] + 1], X[PairAt(o, Len(X))[2] + 1])]

\* the logical sample count of a condensed matrix
SampleCount(dm) == CHOOSE n \in 1..(Len(dm) + 1) : (n * (n - 1)) \div 2 = Len(dm)

SampleSets == UNION {[1..n -> 0..MaxVal] : n \in 2..MaxN}

\* one sample set of each size: transform reads only the length of the matrix
SpreadSamples == {X \in SampleSets : \A i \in 1..Len(X) : X[i] = (i - 1) % (MaxVal + 1)}

\* a pickle written by pickle_save_matrix
Pickle(dm, n) == [matrix |-> dm, size |-> n]

\* ------------------------------------------------------------ projections
\* np.random.random((rows, cols)) at generator state s
RandomMatrix(s, rows, cols) ==
    [r \in 1..rows |-> [c \in 1..cols |-> (s + 2 * r + c) % (MaxCoord + 1)]]

\* np.random.permutation(n) at generator state s (0-based point ids)
Permutation(s, n) == [q \in 1..n |-> (q - 1 + s) % n]

\* the starting projections a caller supplies: rows x cols arrays
StartingProjections(rows, cols) ==
    {RandomMatrix(s, rows, cols) : s \in 0..(RngPeriod - 1)}

NoOut == [op |-> "none", status |-> "ok", projection |-> <<>>, error |-> 0,
          n_dimension |-> 0, fixed_column |-> <<>>, backend |-> "none",
          supplied |-> <<>>, stress_matrix |-> <<>>, stress |-> <<>>]

NoPre == [Xd |-> <<>>, embedding_ |-> <<>>, projection_error_ |-> <<>>, rng |-> 0]

NoIndex == [scalar |-> FALSE, order |-> <<>>]

NoSweep == [index |-> NoIndex, n_dimension |-> 0, fixed_column |-> <<>>,
            error |-> Inf, new_error |-> 0]

Init ==
    /\ max_it \in 1..MaxIt
    /\ tolerance \in Tolerances
    /\ cuda \in BOOLEAN
    /\ embedding_ = NoneV
    /\ embedding_size_ = NoneV
    /\ projection_error_ = NoneV
    /\ origin = "none"
    /\ rng = 0
    /\ file \in {NoneV, Some(Pickle(<<1>>, 2))}
    /\ saved = NoneV
    /\ callerXd = <<>>
    /\ pc = "idle"
    /\ Xd = <<>>
    /\ alias = FALSE
    /\ index = NoIndex
    /\ size = 0
    /\ n_dimension = 0
    /\ fixed_column = NoneV
    /\ engine_dimension = 0
    /\ engine_fixed = NoneV
    /\ backend = "none"
    /\ k = 0
    /\ error = Inf
    /\ nsweeps = 0
    /\ last = NoSweep
    /\ pre = NoPre
    /\ out = NoOut

\* ---------------------------------------------------------- fit, save, load
\* _fit (lines 154-156): only embedding_ is assigned
Fit(X) ==
    /\ pc = "idle"
    /\ embedding_' = Some(create_triangular_distance_matrix(X))
    /\ UNCHANGED embedding_size_
    /\ origin' = "fit"
    /\ out' = [NoOut EXCEPT !.op = "fit"]
    /\ pc' = "done"
    /\ UNCHANGED <<config, projection_error_, rng, disk, callerXd, locals>>

\* save (lines 142-146): reads self.embedding_ and self.embedding_size_
Save(use_pickle) ==
    /\ pc = "idle"
    /\ IF ~use_pickle
       THEN /\ out' = [NoOut EXCEPT !.op = "save", !.status = "NotImplemented"]
            /\ UNCHANGED disk
       ELSE IF embedding_ = NoneV \/ embedding_size_ = NoneV
       THEN /\ out' = [NoOut EXCEPT !.op = "save", !.status = "AttributeError"]
            /\ UNCHANGED disk
       ELSE /\ file' = Some(Pickle(embedding_[1], embedding_size_[1]))
            /\ saved' = Some([matrix |-> embedding_[1], origin |-> origin])
            /\ out' = [NoOut EXCEPT !.op = "save"]
    /\ pc' = "done"
    /\ UNCHANGED <<config, estimator, rng, callerXd, locals>>

\* load (lines 148-150), the pickle format
Load ==
    /\ pc = "idle"
    /\ IF file = NoneV
       THEN /\ out' = [NoOut EXCEPT !.op = "load", !.status = "FileNotFoundError"]
            /\ UNCHANGED <<embedding_, embedding_size_, origin>>
       ELSE /\ embedding_' = Some(file[1].matrix)
            /\ embedding_size_' = Some(file[1].size)
            /\ origin' = "load"
            /\ out' = [NoOut EXCEPT !.op = "load"]
    /\ pc' = "done"
    /\ UNCHANGED <<config, projection_error_, rng, disk, callerXd, locals>>

\* -------------------------------------------------------------------- score
\* squared Euclidean distance of rows p and q (0-based) of a projection
SquaredDistance(M, p, q) ==
    LET d[c \in 0..Width(M)] ==
            IF c = 0 THEN 0
            ELSE d[c - 1] + (M[p + 1][c] - M[q + 1][c]) * (M[p + 1][c] - M[q + 1][c])
    IN d[Width(M)]

\* engines.neo_force_scheme_cpu.kruskal_stress (spec, section 4.4): the
\* stress sqrt(sum (dij - Dij)^2 / sum dij^2), kept as the pair
\* <<sum (dij - Dij)^2, sum dij^2>> with Dij the integer part of the
\* Euclidean distance of rows i and j; a projection whose sample count
\* differs from the matrix's is rejected
kruskal_stress(dm, projection) ==
    LET n == SampleCount(dm)
        D(o) == ISqrt(SquaredDistance(projection, PairAt(o, n)[1], PairAt(o, n)[2]))
        num[o \in 0..Len(dm)] ==
            IF o = 0 THEN 0 ELSE num[o - 1] + (dm[o] - D(o)) * (dm[o] - D(o))
        den[o \in 0..Len(dm)] ==
            IF o = 0 THEN 0 ELSE den[o - 1] + dm[o] * dm[o]
    IN IF Len(projection) # n THEN NoneV ELSE Some(<<num[Len(dm)], den[Len(dm)]>>)

\* line 353: the matrix handed to kruskal_stress is self.embedding_
StressArgument(distance_matrix) == embedding_

\* score with embedding_ preset to an empty matrix and no check of it
ScoreOutcomeUnchecked(projection, distance_matrix) ==
    LET local == IF distance_matrix # NoneV THEN distance_matrix
                 ELSE IF embedding_ # NoneV THEN embedding_ ELSE Some(<<>>)
    IN [NoOut EXCEPT !.op = "score", !.supplied = distance_matrix,
                     !.projection = projection, !.stress_matrix = local,
                     !.stress = Some(<<0, 0>>)]

\* score (lines 348-353); distance_matrix is the optional argument
ScoreOutcome(projection, distance_matrix) ==
    LET base == [NoOut EXCEPT !.op = "score", !.supplied = distance_matrix,
                              !.projection = projection]
        \* lines 348-349: reading self.embedding_ raises when it was never set
        missing == distance_matrix = NoneV /\ embedding_ = NoneV
        local == IF distance_matrix = NoneV THEN embedding_ ELSE distance_matrix
        argument == StressArgument(local)
    IN IF missing THEN [base EXCEPT !.status = "AttributeError"]
       ELSE IF local = NoneV THEN [base EXCEPT !.status = "Exception"]
       ELSE IF argument = NoneV THEN [base EXCEPT !.status = "AttributeError"]
       ELSE IF kruskal_stress(argument[1], projection) = NoneV
       THEN [base EXCEPT !.status = "ShapeError", !.stress_matrix = argument]
       ELSE [base EXCEPT !.stress_matrix = argument,
                         !.stress = kruskal_stress(argument[1], projection)]

Score(projection, distance_matrix) ==
    /\ pc = "idle"
    /\ out' = ScoreOutcome(projection, distance_matrix)
    /\ pc' = "done"
    /\ UNCHANGED <<config, estimator, rng, disk, callerXd, locals>>

ScoreProjections == UNION {StartingProjections(n, 2) : n \in 2..MaxN}

\* ---------------------------------------------------------------- transform
\* check_is_fitted (line 205): some attribute ending in "_" exists
IsFitted == embedding_ # NoneV \/ embedding_size_ # NoneV \/ projection_error_ # NoneV

\* line 207: the sample count recovered from the length of embedding_
SampleSize(total) == ISqrt(2 * total + 1)

\* np.random.seed(random_state) (lines 210-211)
Seed(s, random_state) == IF random_state = NoneV THEN s ELSE random_state[1] % RngPeriod

\* a draw from the global generator moves it to its next state
Advance(s) == (s + 1) % RngPeriod

\* lines 230-231: the last column of every row is overwritten
PinFixedColumn(M, fc) ==
    [r \in 1..Len(M) |-> [M[r] EXCEPT ![Len(M[r])] = fc[1][r]]]

\* lines 226-231: the permutation, unless the loop over the rows of Xd has
\* reused the name index, which then holds the last row number
IterationOrder(s, n, M, fc) ==
    IF fc = NoneV \/ Len(M) = 0
    THEN [scalar |-> FALSE, order |-> Permutation(s, n)]
    ELSE [scalar |-> TRUE, order |-> <<Len(M) - 1>>]

\* n_dimension of _transform when the caller passes none (line 158)
DefaultDimension == 2

\* the starting projection of lines 213-225: drawn from the generator in
\* mode RANDOM, the caller's own array when the mode is None.  The modes
\* TSNE and PCA hand Xd to scikit-learn and are not among the calls made
StartingProjection(mode, Xd_arg, s, n, cols) ==
    IF mode = "RANDOM" THEN RandomMatrix(s, n, cols) ELSE Xd_arg

Clamp(x) == IF x > MaxCoord THEN MaxCoord ELSE IF x < 0 THEN 0 ELSE x

\* engines.neo_force_scheme_cpu.iteration (spec, section 4.2): every point
\* of the Iteration Order is visited and nudged along the first n_dim
\* columns, the last column excepted when a fixed column is passed; the
\* nudge is as large as the discrepancy the sweep reports (step)
iteration(idx, M, n_dim, fixed, step) ==
    LET visited == {idx.order[q] + 1 : q \in 1..Len(idx.order)}
        active == {c \in 1..Width(M) :
                     c <= n_dim /\ (fixed = NoneV \/ c # Width(M))}
    IN [r \in 1..Len(M) |-> [c \in 1..Width(M) |->
          IF r \in visited /\ c \in active THEN Clamp(M[r][c] + step) ELSE M[r][c]]]

\* line 171 with the test lost: the loop never ends early
ConvergedNever(new_error, err) == FALSE

\* line 171: the test that ends the loop early
Converged(new_error, err) == err # Inf /\ Abs(new_error - err) < tolerance

\* line 161: the loop runs while k is in range(max_it)
InRange(j) == j < max_it

\* lines 243-256: the minimum of each column, taken over all rows of Xd, is
\* subtracted from the first sz rows
PostProcess(M, n_dim, sz) ==
    LET shifted == IF n_dim = 2 THEN {1, 2} ELSE IF n_dim = 3 THEN {1, 2, 3} ELSE {}
    IN [r \in 1..Len(M) |-> [c \in 1..Width(M) |->
          IF r <= sz /\ c \in shifted THEN M[r][c] - Min(Column(M, c)) ELSE M[r][c]]]

Snapshot(Xd_arg) ==
    [Xd |-> Xd_arg, embedding_ |-> embedding_,
     projection_error_ |-> projection_error_, rng |-> rng]

\* the call is over: its locals are gone, its outcome is with the caller
Finished ==
    /\ Xd' = <<>>
    /\ alias' = FALSE
    /\ index' = NoIndex
    /\ size' = 0
    /\ n_dimension' = 0
    /\ fixed_column' = NoneV
    /\ engine_dimension' = 0
    /\ engine_fixed' = NoneV
    /\ backend' = "none"
    /\ k' = 0
    /\ error' = Inf

\* lines 237-263: the error of the loop is stored, the projection of the
\* loop is shifted and returned
Return(X, err) ==
    /\ projection_error_' = Some(err)
    /\ out' = [NoOut EXCEPT !.op = "transform",
                            !.projection = PostProcess(X, n_dimension', size'),
                            !.error = err,
                            !.n_dimension = n_dimension',
                            !.fixed_column = fixed_column',
                            !.backend = backend']
    /\ callerXd' = IF alias' THEN PostProcess(X, n_dimension', size') ELSE callerXd
    /\ pc' = "done"
    /\ Xd' = <<>>
    /\ k' = 0
    /\ error' = Inf

\* transform, lines 205-241, up to the first sweep.  gpu_ok: whether
\* neo_force_scheme_gpu can be imported and started (lines 269-275)
TransformCall(Xd_arg, mode, random_state, n_dim, fc, gpu_ok) ==
    /\ pc = "idle"
    /\ pre' = IF ~IsFitted \/ n_dim > 3 THEN Snapshot(Xd_arg) ELSE NoPre
    /\ nsweeps' = 0
    /\ last' = NoSweep
    /\ UNCHANGED <<config, embedding_, embedding_size_, origin, disk>>
    /\ IF ~IsFitted
       THEN /\ out' = [NoOut EXCEPT !.op = "transform", !.status = "NotFittedError"]
            /\ callerXd' = Xd_arg
            /\ UNCHANGED <<rng, projection_error_>>
            /\ pc' = "done"
            /\ Finished
       ELSE LET total == Len(embedding_[1])
                sz == SampleSize(total)
                seeded == Seed(rng, random_state)
                start == StartingProjection(mode, Xd_arg, seeded, sz, n_dim)
                drawn == IF mode = "RANDOM" THEN Advance(seeded) ELSE seeded
                pinned == IF fc = NoneV THEN start ELSE PinFixedColumn(start, fc)
                order == IterationOrder(drawn, sz, start, fc)
            IN /\ rng' = Advance(drawn)
               /\ IF n_dim > 3
                  THEN /\ out' = [NoOut EXCEPT !.op = "transform",
                                               !.status = "NotImplementedError",
                                               !.n_dimension = n_dim,
                                               !.fixed_column = fc]
                       /\ callerXd' = IF mode = "None" THEN pinned ELSE Xd_arg
                       /\ UNCHANGED projection_error_
                       /\ pc' = "done"
                       /\ Finished
                  ELSE /\ alias' = (mode = "None")
                       /\ index' = order
                       /\ size' = sz
                       /\ n_dimension' = n_dim
                       /\ fixed_column' = fc
                       /\ backend' = IF ~cuda THEN "cpu"
                                     ELSE IF gpu_ok THEN "gpu" ELSE "fallback"
                       /\ engine_dimension' =
                              IF cuda /\ ~gpu_ok THEN DefaultDimension ELSE n_dim
                       /\ engine_fixed' = NoneV
                       /\ IF InRange(0)
                          THEN /\ out' = [NoOut EXCEPT !.op = "transform",
                                                       !.status = "running"]
                               /\ callerXd' = IF mode = "None" THEN pinned ELSE Xd_arg
                               /\ pc' = "loop"
                               /\ Xd' = pinned
                               /\ k' = 0
                               /\ error' = Inf
                               /\ UNCHANGED projection_error_
                          ELSE Return(pinned, Inf)

\* one pass of the loop of _transform, lines 161-175, and, when it was the
\* last, the return of transform.  accepted: whether the engine takes an
\* Iteration Order that is a bare integer or raises
Sweep(new_error, accepted) ==
    /\ pc = "loop"
    /\ UNCHANGED <<config, embedding_, embedding_size_, origin, disk, rng, pre>>
    /\ IF index.scalar /\ ~accepted
       THEN /\ out' = [NoOut EXCEPT !.op = "transform", !.status = "TypeError",
                                    !.n_dimension = n_dimension,
                                    !.fixed_column = fixed_column,
                                    !.backend = backend]
            /\ pc' = "done"
            /\ Finished
            /\ UNCHANGED <<callerXd, nsweeps, last, projection_error_>>
       ELSE LET X == iteration(index, Xd, engine_dimension, engine_fixed, new_error)
                stop == Converged(new_error, error)
            IN /\ nsweeps' = nsweeps + 1
               /\ last' = [index |-> index, n_dimension |-> engine_dimension,
                           fixed_column |-> engine_fixed, error |-> error,
                           new_error |-> new_error]
               /\ UNCHANGED <<alias, index, size, n_dimension, fixed_column,
                              engine_dimension, engine_fixed, backend>>
               /\ IF stop
                  THEN Return(X, error)
                  ELSE IF ~InRange(k + 1)
                  THEN Return(X, new_error)
                  ELSE /\ Xd' = X
                       /\ callerXd' = IF alias THEN X ELSE callerXd
                       /\ error' = new_error
                       /\ k' = k + 1
                       /\ pc' = "loop"
                       /\ UNCHANGED <<out, projection_error_>>

\* the caller has taken the outcome of the finished call; what the model
\* recorded about that call is dropped before the next one starts
Collect ==
    /\ pc = "done"
    /\ Finished
    /\ pc' = "idle"
    /\ out' = NoOut
    /\ callerXd' = <<>>
    /\ nsweeps' = 0
    /\ last' = NoSweep
    /\ pre' = NoPre
    /\ UNCHANGED <<config, estimator, rng, disk>>

\* starting_projection_mode of the calls made
Modes == {"RANDOM", "None"}

\* per-sample values a caller pins the last axis to
FixedColumns(n) == {[r \in 1..n |-> (r + 1) % (MaxCoord + 1)]}

\* the sample count a caller shapes its arguments for
CallerCount == IF embedding_ = NoneV THEN 2 ELSE SampleCount(embedding_[1])

\* the arrays a caller passes as Xd: none when the start is drawn at random
CallerArrays(mode, n_dim) ==
    IF mode = "RANDOM" THEN {<<>>} ELSE StartingProjections(CallerCount, n_dim)

Transform ==
    /\ pc = "idle"
    /\ \E mode \in Modes, n_dim \in {2, 3, 4}, gpu_ok \in BOOLEAN,
          random_state \in {NoneV, Some(1)},
          fc \in {NoneV} \cup {Some(f) : f \in FixedColumns(CallerCount)} :
          \E Xd_arg \in CallerArrays(mode, n_dim) :
             /\ cuda \/ gpu_ok
             /\ TransformCall(Xd_arg, mode, random_state, n_dim, fc, gpu_ok)

\* the engine reports any error; a bare integer as order it takes or not
Iterate ==
    /\ pc = "loop"
    /\ \E new_error \in 0..MaxErr,
          accepted \in (IF index.scalar THEN BOOLEAN ELSE {TRUE}) :
            Sweep(new_error, accepted)

FitSpread == \E X \in SpreadSamples : Fit(X)

FitAny == \E X \in SampleSets : Fit(X)

SaveAny == \E use_pickle \in BOOLEAN : Save(use_pickle)

\* the custom distance matrices a caller hands to score
SuppliedMatrices == {create_triangular_distance_matrix(X) : X \in SpreadSamples}

ScoreAny ==
    /\ pc = "idle"
    /\ \E projection \in ScoreProjections,
          distance_matrix \in {NoneV} \cup {Some(dm) : dm \in SuppliedMatrices} :
            Score(projection, distance_matrix)

Next ==
    \/ FitSpread
    \/ Transform
    \/ Iterate
    \/ Collect

\* the operations on the stored distance matrix
NextStore ==
    \/ FitAny
    \/ SaveAny
    \/ Load
    \/ ScoreAny
    \/ Collect

Spec == Init /\ [][Next]_vars

\* fit, save, load and score read nothing of the configuration but the
\* metric: one configuration is enough for them
InitStore == Init /\ max_it = 1 /\ tolerance = 0 /\ ~cuda

SpecStore == InitStore /\ [][NextStore]_vars
\* ------------------------------------------------------------------ claims
IsPermutation(order, n) ==
    /\ Len(order) = n
    /\ \A p \in 0..(n - 1) : \E q \in 1..Len(order) : order[q] = p

TransformReturned == pc = "done" /\ out.op = "transform" /\ out.status = "ok"

\* the latest sweep reported an error within tolerance of the error
\* recorded before it
LastWithinTolerance ==
    /\ nsweeps > 0
    /\ last.error # Inf
    /\ Abs(last.new_error - last.error) < tolerance

\* C1: a run of transform performs at most max_it sweeps, and no sweep is
\* performed once a sweep has reported an error that differs from the error
\* recorded before it by less than tolerance.
C1_SweepsBounded ==
    /\ [](nsweeps <= max_it)
    /\ [][nsweeps' = nsweeps + 1 => ~LastWithinTolerance]_vars
    /\ []((LastWithinTolerance \/ nsweeps = max_it) => pc # "loop")

\* C1 witness: a run that returned after fewer than max_it sweeps, the last
\* of which was within tolerance of the one before it.
C1_StoppedEarly ==
    /\ TransformReturned
    /\ nsweeps < max_it
    /\ LastWithinTolerance

\* C2: a transform that fails with the dimensionality error leaves the
\* caller's starting projection, the distance matrix, projection_error_ and
\* the random generator as they were when it was called.
C2_FailedCallMutatesNothing ==
    (pc = "done" /\ out.op = "transform" /\ out.status = "NotImplementedError")
    => /\ callerXd = pre.Xd
       /\ embedding_ = pre.embedding_
       /\ projection_error_ = pre.projection_error_
       /\ rng = pre.rng

\* the failures score raises because the Distance Matrix is missing
NotFitted == {"AttributeError", "Exception"}

\* C3: score on an estimator that was never fitted or loaded, with no
\* distance matrix supplied, fails with the NotFitted condition and
\* kruskal_stress is not called.
C3_ScoreBeforeFit ==
    (pc = "done" /\ out.op = "score" /\ origin = "none" /\ out.supplied = NoneV)
    => /\ out.status \in NotFitted
       /\ out.stress_matrix = NoneV
       /\ out.stress = NoneV

\* C3 witness: score has run on a never-fitted estimator without a matrix.
C3_ScoredUnfitted ==
    /\ pc = "done"
    /\ out.op = "score"
    /\ origin = "none"
    /\ out.supplied = NoneV
    /\ out.status = "AttributeError"

\* C4: score with a supplied distance matrix (and a projection of its sample
\* count) succeeds, fitted or not, and the stress is the one of the
\* supplied matrix.
C4_ScoreUsesSuppliedMatrix ==
    (/\ pc = "done"
     /\ out.op = "score"
     /\ out.supplied # NoneV
     /\ Len(out.projection) = SampleCount(out.supplied[1]))
    => /\ out.status = "ok"
       /\ out.stress_matrix = out.supplied
       /\ out.stress = kruskal_stress(out.supplied[1], out.projection)

\* C5: with a distance matrix built by fit, save succeeds, and the load that
\* follows leaves the estimator with the saved distances and their sample
\* count.
C5_SaveLoadRoundTrip ==
    /\ (pc = "done" /\ out.op = "save" /\ origin = "fit"
            /\ out.status # "NotImplemented")
       => out.status = "ok"
    /\ (pc = "done" /\ out.op = "load" /\ saved # NoneV)
       => (saved[1].origin = "fit"
           => /\ out.status = "ok"
              /\ embedding_ = Some(saved[1].matrix)
              /\ embedding_size_ = Some(SampleCount(saved[1].matrix)))

\* C6: the projection a successful transform returns has minimum 0, over
\* all its rows, in every active column that is not the fixed one.
C6_MinimumIsZero ==
    TransformReturned
    => \A c \in 1..out.n_dimension :
          (out.fixed_column = NoneV \/ c # out.n_dimension)
          => Min(Column(out.projection, c)) = 0

\* C7: with fixed_column given, every sweep is told of the fixed column and
\* the last coordinate of every returned point is the caller's value.
C7_FixedColumnKept ==
    /\ (pc = "loop" /\ fixed_column # NoneV /\ nsweeps > 0)
       => last.fixed_column = fixed_column
    /\ (TransformReturned /\ out.fixed_column # NoneV)
       => \A r \in 1..Len(out.projection) :
             out.projection[r][out.n_dimension] = out.fixed_column[1][r]

\* C8: when the accelerated backend fails, the baseline loop runs with the
\* projection, iteration order and target dimensionality of the request,
\* and transform returns.
C8_FallbackSameRun ==
    /\ (pc = "loop" /\ backend = "fallback")
       => /\ engine_dimension = n_dimension
          /\ nsweeps > 0 => (last.n_dimension = n_dimension /\ last.index = index)
    /\ (pc = "done" /\ out.op = "transform" /\ out.backend = "fallback")
       => out.status = "ok"

\* C9: the error transform returns and stores as projection_error_ is the
\* error the last executed sweep reported.
C9_ErrorOfLastSweep ==
    (TransformReturned /\ nsweeps > 0)
    => /\ out.error = last.new_error
       /\ projection_error_ = Some(last.new_error)

\* C10: every sweep of a run over n fitted samples is handed the Iteration
\* Order computed for the run, a permutation of [0, n).
C10_OrderIsPermutation ==
    (embedding_ # NoneV /\ nsweeps > 0)
    => /\ ~last.index.scalar
       /\ IsPermutation(last.index.order, SampleCount(embedding_[1]))
       /\ pc = "loop" => last.index = index
====
